---- MODULE Spec2Model ----
(***************************************************************************)
(* The Living Treaty: the Mi'kmaw word analysis code of translator.py      *)
(* (LnuTranslator: lookup, analyze_word, generate_modern_term) and the     *)
(* suffix-peeling segmenter of lnu_bridge.py (analyze_morphemes).          *)
(*                                                                         *)
(* A Python str is a sequence of one-character strings, so that strip,     *)
(* lower, endswith, "in", split and slicing are computed, not assumed.     *)
(* An Optional value is a sequence: None is <<>>, a value v is <<v>>.      *)
(***************************************************************************)
EXTENDS Integers, Sequences, FiniteSets, TLC

VARIABLES
    lexicon,          \* self.lexicon of the translator
    animacy_hints,    \* the module-level dict ANIMACY_HINTS
    worldview_hints,  \* the module-level dict WORLDVIEW_HINTS
    morpheme_table,   \* the module-level list MORPHEMES of lnu_bridge.py
    input,            \* the argument the operations are called with
    op,               \* the last operation called
    result            \* what it returned

vars == <<lexicon, animacy_hints, worldview_hints, morpheme_table, input, op, result>>

\* ------------------------------------------------------------------------
\* Bounds of the model
\* ------------------------------------------------------------------------

\* Words are concatenations of at most MaxPieces fragments of WordPieces.
MaxPieces == 3

\* concept and purpose are concatenations of at most MaxReqPieces fragments.
MaxReqPieces == 2

\* Sentences are concatenations of at most MaxSentPieces fragments.
MaxSentPieces == 3

\* Words segmented over reordered morpheme tables are concatenations of at
\* most MaxOrderPieces fragments of OrderPieces.
MaxOrderPieces == 2

\* ------------------------------------------------------------------------
\* Python built-ins on str and list
\* ------------------------------------------------------------------------

None == <<>>

UpperLetters == <<"A","B","C","D","E","F","G","H","I","J","K","L","M",
                  "N","O","P","Q","R","S","T","U","V","W","X","Y","Z">>

LowerLetters == <<"a","b","c","d","e","f","g","h","i","j","k","l","m",
                  "n","o","p","q","r","s","t","u","v","w","x","y","z">>

\* The characters str.strip() removes (str.isspace).
Whitespace == {" ", "\t", "\n", "\r"}

LowerChar(c) ==
    IF \E i \in 1..Len(UpperLetters) : UpperLetters[i] = c
    THEN LowerLetters[CHOOSE i \in 1..Len(UpperLetters) : UpperLetters[i] = c]
    ELSE c

\* str.lower()
lower(s) == [i \in 1..Len(s) |-> LowerChar(s[i])]

\* str.capitalize(): first character upper-cased, the rest lower-cased
UpperChar(c) ==
    IF \E i \in 1..Len(LowerLetters) : LowerLetters[i] = c
    THEN UpperLetters[CHOOSE i \in 1..Len(LowerLetters) : LowerLetters[i] = c]
    ELSE c

capitalize(s) ==
    [i \in 1..Len(s) |-> IF i = 1 THEN UpperChar(s[i]) ELSE LowerChar(s[i])]

RECURSIVE lstrip(_)
lstrip(s) ==
    IF s # <<>> /\ Head(s) \in Whitespace THEN lstrip(Tail(s)) ELSE s

RECURSIVE rstrip(_)
rstrip(s) ==
    IF s # <<>> /\ s[Len(s)] \in Whitespace
    THEN rstrip(SubSeq(s, 1, Len(s) - 1))
    ELSE s

\* str.strip()
strip(s) == rstrip(lstrip(s))

\* s.endswith(t)
endswith(s, t) ==
    /\ Len(t) <= Len(s)
    /\ SubSeq(s, Len(s) - Len(t) + 1, Len(s)) = t

\* t in s, for strings
contains(s, t) ==
    \E i \in 0..(Len(s) - Len(t)) : SubSeq(s, i + 1, i + Len(t)) = t

\* s.split(sep) for a one-character separator: the pieces between the
\* separators, empty pieces included
RECURSIVE splitFrom(_, _, _)
splitFrom(s, sep, cur) ==
    IF s = <<>> THEN <<cur>>
    ELSE IF Head(s) = sep THEN <<cur>> \o splitFrom(Tail(s), sep, <<>>)
    ELSE splitFrom(Tail(s), sep, Append(cur, Head(s)))

split(s, sep) == splitFrom(s, sep, <<>>)

\* sep.join(parts), the text kept as a sequence of chunks
RECURSIVE join(_, _)
join(sep, parts) ==
    IF parts = <<>> THEN <<>>
    ELSE IF Len(parts) = 1 THEN <<parts[1]>>
    ELSE <<parts[1], sep>> \o join(sep, Tail(parts))

\* ------------------------------------------------------------------------
\* lnu_bridge.py: the morpheme table
\* ------------------------------------------------------------------------

BridgeMorpheme(form, gloss, type, notes) ==
    [form |-> form, gloss |-> gloss, type |-> type, notes |-> notes]

MORPHEMES == <<
    BridgeMorpheme(<<"t","e","k","e","k">>, "cold (it is cold)", "root",
                   "SFO; often pronounced with 'g' quality"),
    BridgeMorpheme(<<"w","i","k","u","o","m">>, "house, dwelling, storage place", "root", ""),
    BridgeMorpheme(<<"a","q","a","n">>, "motion of arm/elbow, waving", "suffix",
                   "used in weenieraqn joke"),
    BridgeMorpheme(<<"k","e","t","l","a","m","i">>, "care, concern, love-like care", "root", ""),
    BridgeMorpheme(<<"w","e","l","o","'","t">>, "good, well, in good state", "root", ""),
    BridgeMorpheme(<<"e","p","s","i">>, "I am warm / passionate", "root",
                   "Pacifique/Prosper"),
    BridgeMorpheme(<<"u","l">>, "to make, to cause", "suffix",
                   "device/action builder"),
    BridgeMorpheme(<<"q","a","n">>, "device / instrument / 'thing that does it'",
                   "suffix", ""),
    BridgeMorpheme(<<"s","i">>, "I am (stative in some forms)", "suffix", ""),
    BridgeMorpheme(<<"t","a","s","i">>, "in state/condition of", "suffix", "")
>>

\* remaining in MORPHEME_INDEX, for the index {m.form: m for m in table}
InMorphemeIndex(table, form) ==
    \E i \in 1..Len(table) : table[i].form = form

\* MORPHEME_INDEX[form]: a dict comprehension keeps the last morpheme of a form
MORPHEME_INDEX(table, form) ==
    table[CHOOSE i \in 1..Len(table) :
            /\ table[i].form = form
            /\ \A j \in (i + 1)..Len(table) : table[j].form # form]

\* ------------------------------------------------------------------------
\* lnu_bridge.py: analyze_morphemes
\* ------------------------------------------------------------------------

MaxFormLen(seq) ==
    IF seq = <<>> THEN 0
    ELSE CHOOSE n \in {Len(seq[i].form) : i \in 1..Len(seq)} :
            \A i \in 1..Len(seq) : Len(seq[i].form) <= n

IsSuffixMorpheme(m) == m.type = "suffix"

HasFormLen(m, n) == Len(m.form) = n

\* The morphemes of seq whose form has length n, n-1, ..., 0, each group in
\* the order of seq: sorted(seq, key=len(form), reverse=True), which is stable.
RECURSIVE byLenDescending(_, _)
byLenDescending(seq, n) ==
    IF n < 0 THEN <<>>
    ELSE SelectSeq(seq, LAMBDA m : HasFormLen(m, n)) \o byLenDescending(seq, n - 1)

RECURSIVE byLenAscending(_, _, _)
byLenAscending(seq, n, max) ==
    IF n > max THEN <<>>
    ELSE SelectSeq(seq, LAMBDA m : HasFormLen(m, n)) \o byLenAscending(seq, n + 1, max)

\* a sort that forgot reverse=True
suffixesShortestFirst(table) ==
    LET sufs == SelectSeq(table, IsSuffixMorpheme)
    IN  byLenAscending(sufs, 0, MaxFormLen(sufs))

\* the list comprehension without the sort around it
suffixesTableOrder(table) == SelectSeq(table, IsSuffixMorpheme)

suffixes(table) ==
    LET sufs == SelectSeq(table, IsSuffixMorpheme)
    IN  byLenDescending(sufs, MaxFormLen(sufs))

\* a peeling test without the "remaining != suf.form" guard
peelableUnguarded(remaining, suf) == endswith(remaining, suf.form)

\* the test of the for loop
peelable(remaining, suf) ==
    endswith(remaining, suf.form) /\ remaining # suf.form

\* the index in sufs of the suffix the for loop breaks on, 0 if it ends
\* without a break
firstPeelable(sufs, remaining) ==
    IF \E i \in 1..Len(sufs) : peelable(remaining, sufs[i])
    THEN CHOOSE i \in 1..Len(sufs) :
            /\ peelable(remaining, sufs[i])
            /\ \A j \in 1..(i - 1) : ~peelable(remaining, sufs[j])
    ELSE 0

\* an iteration that forgets "remaining = remaining[: -len(suf.form)]"
peelKeepsResidual(st, suf) ==
    [remaining |-> st.remaining,
     found     |-> <<suf>> \o st.found,
     steps     |-> Append(st.steps, [residual |-> st.remaining, suf |-> suf])]

\* one iteration of the while loop that peels suf: the body of the if
peel(st, suf) ==
    [remaining |-> SubSeq(st.remaining, 1, Len(st.remaining) - Len(suf.form)),
     found     |-> <<suf>> \o st.found,
     steps     |-> Append(st.steps, [residual |-> st.remaining, suf |-> suf])]

\* The while loop. st = [remaining, found, steps]; steps records, for every
\* iteration that peeled, the residual before it and the suffix stripped.
RECURSIVE peelLoop(_, _)
peelLoop(sufs, st) ==
    LET i == firstPeelable(sufs, st.remaining)
    IN  IF i = 0 THEN st
        ELSE peelLoop(sufs,
                [remaining |-> SubSeq(st.remaining, 1,
                                      Len(st.remaining) - Len(sufs[i].form)),
                 found     |-> <<sufs[i]>> \o st.found,
                 steps     |-> Append(st.steps,
                                      [residual |-> st.remaining,
                                       suf      |-> sufs[i]])])

\* found.insert(0, suf) written as found.append(suf)
rootFirstAppended(table, st) ==
    IF InMorphemeIndex(table, st.remaining)
    THEN [st EXCEPT !.found = Append(@, MORPHEME_INDEX(table, st.remaining))]
    ELSE IF st.remaining # <<>>
         THEN [st EXCEPT !.found =
                 Append(@, BridgeMorpheme(st.remaining, "UNKNOWN-ROOT", "root",
                                          "not yet in database"))]
         ELSE st

\* "whatever is left, see if it's a root we know"
rootFirst(table, st) ==
    IF InMorphemeIndex(table, st.remaining)
    THEN [st EXCEPT !.found = <<MORPHEME_INDEX(table, st.remaining)>> \o @]
    ELSE IF st.remaining # <<>>
         THEN [st EXCEPT !.found =
                 <<BridgeMorpheme(st.remaining, "UNKNOWN-ROOT", "root",
                                  "not yet in database")>> \o @]
         ELSE st

\* analyze_morphemes over a morpheme table, with the loop's steps and the
\* final residual kept beside the returned list
segment(table, sfo_word) ==
    rootFirst(table,
              peelLoop(suffixes(table),
                       [remaining |-> sfo_word, found |-> <<>>, steps |-> <<>>]))

analyze_morphemes(sfo_word) == segment(morpheme_table, sfo_word).found

\* ------------------------------------------------------------------------
\* translator.py: data models
\* ------------------------------------------------------------------------

\* Morpheme(surface, gloss, role); notes is never given and stays None
Morpheme(surface, gloss, role) ==
    [surface |-> surface, gloss |-> gloss, role |-> role, notes |-> None]

\* The helper W of _init_lexicon: worldview_tags and examples default to [],
\* register to None.
W(headword, english, part_of_speech, animacy, morphemes, worldview_tags, register, examples) ==
    [headword       |-> headword,
     english        |-> english,
     part_of_speech |-> part_of_speech,
     animacy        |-> animacy,
     morphemes      |-> morphemes,
     register       |-> register,
     worldview_tags |-> worldview_tags,
     examples       |-> examples]

AnalysisResult(word, entry, guessed_morphemes, animacy_guess, worldview_notes) ==
    [word              |-> word,
     entry             |-> entry,
     guessed_morphemes |-> guessed_morphemes,
     animacy_guess     |-> animacy_guess,
     worldview_notes   |-> worldview_notes]

GenerationRequest(concept, purpose, domain_tags) ==
    [concept |-> concept, purpose |-> purpose, domain_tags |-> domain_tags]

GenerationCandidate(word, breakdown, explanation, caution) ==
    [word |-> word, breakdown |-> breakdown,
     explanation |-> explanation, caution |-> caution]

\* ------------------------------------------------------------------------
\* translator.py: LEXICON_CORE, in insertion order, as <<key, entry>> items
\* ------------------------------------------------------------------------

Item(key, entry) == [key |-> key, entry |-> entry]

LEXICON_CORE == <<
    Item(<<"k","e","s","a","l","u","l">>,
         W(<<"k","e","s","a","l","u","l">>, "I love you", "VTA-1sg>2", <<"animate">>,
           <<Morpheme(<<"k","e","-">>, "1st person acting (I)", "prefix"),
             Morpheme(<<"s","a","l">>, "love / precious", "root"),
             Morpheme(<<"-","u","l">>, "1->2 object (you)", "final")>>,
           <<"kinship", "emotion">>, None,
           <<"Kesalul nikmaq. - I love you, my relations.">>)),
    Item(<<"k","e","s","a","'","l","u","l">>,
         W(<<"k","e","s","a","'","l","u","l">>, "I hurt you", "VTA-1sg>2", <<"animate">>,
           <<Morpheme(<<"k","e","-">>, "1st person acting (I)", "prefix"),
             Morpheme(<<"s","a","'">>, "hurt / pain", "root"),
             Morpheme(<<"-","u","l">>, "1->2 object (you)", "final")>>,
           <<"emotion", "harm">>, None, <<>>)),
    Item(<<"k","e","'","s","a","'","l","u","l">>,
         W(<<"k","e","'","s","a","'","l","u","l">>, "I place you into the fire (as offering/prayer)",
           "VTA-1sg>2", <<"animate">>,
           <<Morpheme(<<"k","e","'","-">>, "into / into the fire", "preverb"),
             Morpheme(<<"s","a","'">>, "put / place", "root"),
             Morpheme(<<"-","l","u","l">>, "1->2 object", "final")>>,
           <<"ceremony", "offering", "fire">>, None, <<>>)),
    Item(<<"t","e","k","e","k">>,
         W(<<"t","e","k","e","k">>, "it is cold", "VII", <<"inanimate">>,
           <<Morpheme(<<"t","e","k","e","k">>, "cold (inanimate state)", "root")>>,
           <<"weather", "state">>, None, <<>>)),
    Item(<<"n","m","e","'","j","i","k">>,
         W(<<"n","m","e","'","j","i","k">>, "fishes", "NA-pl", <<"animate">>,
           <<Morpheme(<<"n","m","e","'">>, "fish", "root"),
             Morpheme(<<"-","j","i","k">>, "animate plural", "suffix")>>,
           <<"animals", "water">>, None, <<>>)),
    Item(<<"m","s","i","t"," ","n","o","'","k","m","a","q">>,
         W(<<"m","s","i","t"," ","n","o","'","k","m","a","q">>, "all my relations", "expression", None,
           <<Morpheme(<<"m","s","i","t">>, "all", "quantifier"),
             Morpheme(<<"n","o","'","k","m","a","q">>, "my relations / all my kin", "noun")>>,
           <<"msit_nokmaq", "philosophy", "relation">>, <<"ceremonial">>,
           <<>>))
>>

\* ------------------------------------------------------------------------
\* translator.py: the hint tables, in definition order
\* ------------------------------------------------------------------------

Hint(frag, value) == [frag |-> frag, value |-> value]

ANIMACY_HINTS == <<
    Hint(<<"n","m","e","'">>, "animate"),
    Hint(<<"k","a","t","a","q">>, "animate"),
    Hint(<<"w","a","i","s","i","k">>, "animate"),
    Hint(<<"w","e","s","k","a","q">>, "inanimate")
>>

WORLDVIEW_HINTS == <<
    Hint(<<"m","s","i","t">>, <<"Msit No'kmaq - all is related.">>),
    Hint(<<"n","o","'","k","m","a","q">>, <<"Relational kinship, not just biological family.">>),
    Hint(<<"n","i","p","u","g","t">>, <<"In the woods / territory context.">>),
    Hint(<<"s","a","m","q","w","a","n">>, <<"Water context - river, lake, ocean.">>),
    Hint(<<"e","'","s">>, <<"Process / becoming; states often verbs, not nouns.">>)
>>

\* ------------------------------------------------------------------------
\* translator.py: guess_animacy, collect_worldview_notes
\* ------------------------------------------------------------------------

\* a loop over the hints that has no early return: the last match wins
guess_animacyLastMatch(word) ==
    LET word_lower == lower(word)
        hit(i) == contains(word_lower, ANIMACY_HINTS[i].frag)
    IN  IF \E i \in 1..Len(ANIMACY_HINTS) : hit(i)
        THEN <<ANIMACY_HINTS[CHOOSE i \in 1..Len(ANIMACY_HINTS) :
                    hit(i) /\ \A j \in (i + 1)..Len(ANIMACY_HINTS) : ~hit(j)].value>>
        ELSE IF endswith(word_lower, <<"j","i","k">>) THEN <<"animate">>
        ELSE None

guess_animacy(word) ==
    LET word_lower == lower(word)
        hit(i) == contains(word_lower, animacy_hints[i].frag)
    IN  IF \E i \in 1..Len(animacy_hints) : hit(i)
        THEN <<animacy_hints[CHOOSE i \in 1..Len(animacy_hints) :
                    hit(i) /\ \A j \in 1..(i - 1) : ~hit(j)].value>>
        ELSE IF endswith(word_lower, <<"j","i","k">>) THEN <<"animate">>
        ELSE IF endswith(word_lower, <<"l">>) \/ endswith(word_lower, <<"k">>) THEN None
        ELSE None

RECURSIVE notesFrom(_, _)
notesFrom(hints, lowered) ==
    IF hints = <<>> THEN <<>>
    ELSE (IF contains(lowered, Head(hints).frag)
          THEN <<Head(hints).value>> ELSE <<>>)
         \o notesFrom(Tail(hints), lowered)

\* a loop over the hints that stops at the first match
collect_worldview_notesFirstOnly(word) ==
    LET all == notesFrom(WORLDVIEW_HINTS, lower(word))
    IN  IF all = <<>> THEN <<>> ELSE <<Head(all)>>

collect_worldview_notes(word) == notesFrom(worldview_hints, lower(word))

\* ------------------------------------------------------------------------
\* translator.py: LnuTranslator
\* ------------------------------------------------------------------------

\* __init__: self.lexicon = lexicon or LEXICON_CORE (None and {} are falsy)
initLexicon(arg) == IF arg = None THEN LEXICON_CORE ELSE arg

HasKey(lex, key) == \E i \in 1..Len(lex) : lex[i].key = key

Get(lex, key) == lex[CHOOSE i \in 1..Len(lex) : lex[i].key = key].entry

\* the "loose search" loop: the first item, in dict order, whose lower-cased
\* headword key equals the lower-cased query
RECURSIVE looseSearch(_, _)
looseSearch(items, key) ==
    IF items = <<>> THEN None
    ELSE IF lower(Head(items).key) = lower(key) THEN <<Head(items).entry>>
    ELSE looseSearch(Tail(items), key)

\* a lookup without the "try exact first" step
lookupLooseOnly(lex, word) == looseSearch(lex, strip(word))

lookup(lex, word) ==
    LET key == strip(word)
    IN  IF HasKey(lex, key) THEN <<Get(lex, key)>>
        ELSE looseSearch(lex, key)

\* the non-empty pieces of word.split("'"), each a "possible morpheme"
RECURSIVE apostropheParts(_)
apostropheParts(parts) ==
    IF parts = <<>> THEN <<>>
    ELSE (IF Head(parts) = <<>> THEN <<>>
          ELSE <<Morpheme(Head(parts), "possible morpheme", "unknown")>>)
         \o apostropheParts(Tail(parts))

NoteJik ==
    <<"-jik often marks animate plural (people, animals, living beings).">>

NoteApostrophe ==
    <<"Apostrophes often mark long vowels or morpheme boundaries.">>

NoteNoEntry ==
    <<"No lexicon entry yet. This is a good candidate to confirm with fluent speakers.">>

NoteAnimacy(anim) == <<"Animacy guess: ", anim, ".">>

NoteTags(tags) == <<"Worldview tags: ">> \o join(", ", tags)

\* a hit branch that reports the heuristic animacy guess, as the miss branch
\* does
analyzeHitGuessedAnimacy(word, entry) ==
    LET notes == collect_worldview_notes(entry.headword)
    IN  AnalysisResult(word, <<entry>>, <<>>, guess_animacy(word),
            IF entry.worldview_tags # <<>>
            THEN Append(notes, NoteTags(entry.worldview_tags))
            ELSE notes)

\* the hit branch of analyze_word
analyzeHit(word, entry) ==
    LET notes == collect_worldview_notes(entry.headword)
    IN  AnalysisResult(word, <<entry>>, <<>>, entry.animacy,
            IF entry.worldview_tags # <<>>
            THEN Append(notes, NoteTags(entry.worldview_tags))
            ELSE notes)

\* pattern heuristics that test the "jik" ending on the lower-cased word,
\* as guess_animacy does
missPatternsCaseFolded(word, notes) ==
    IF endswith(lower(word), <<"j","i","k">>)
    THEN [guessed |-> <<Morpheme(SubSeq(word, 1, Len(word) - 3),
                                 "possible animate root", "root"),
                        Morpheme(<<"-","j","i","k">>, "animate plural", "suffix")>>,
          notes   |-> Append(notes, NoteJik)]
    ELSE IF contains(word, <<"'">>)
    THEN [guessed |-> apostropheParts(split(word, "'")),
          notes   |-> Append(notes, NoteApostrophe)]
    ELSE [guessed |-> <<>>, notes |-> notes]

\* the pattern heuristics of the miss branch: [guessed, notes] before the
\* "if not guessed" fallback
missPatterns(word, notes) ==
    IF endswith(word, <<"j","i","k">>)
    THEN [guessed |-> <<Morpheme(SubSeq(word, 1, Len(word) - 3),
                                 "possible animate root", "root"),
                        Morpheme(<<"-","j","i","k">>, "animate plural", "suffix")>>,
          notes   |-> Append(notes, NoteJik)]
    ELSE IF contains(word, <<"'">>)
    THEN [guessed |-> apostropheParts(split(word, "'")),
          notes   |-> Append(notes, NoteApostrophe)]
    ELSE [guessed |-> <<>>, notes |-> notes]

\* a miss branch that forgot the "if not guessed" fallback
missFallbackForgotten(word, st) == st

\* "if not guessed": the whole word as one unknown morpheme, with the
\* no-entry note
missFallback(word, st) ==
    IF st.guessed = <<>>
    THEN [guessed |-> <<Morpheme(word, "unknown - add to lexicon with elders",
                                 "unknown")>>,
          notes   |-> Append(st.notes, NoteNoEntry)]
    ELSE st

\* a miss branch that returns None for an empty or whitespace-only word
analyzeMissBlankIsNone(word) ==
    IF strip(word) = <<>> THEN None
    ELSE LET anim_guess == guess_animacy(word)
             st == missFallback(word,
                       missPatterns(word, collect_worldview_notes(word)))
         IN  AnalysisResult(word, None, st.guessed, anim_guess,
                 IF anim_guess # None /\ anim_guess # <<"">>
                 THEN Append(st.notes, NoteAnimacy(anim_guess[1]))
                 ELSE st.notes)

\* the miss branch of analyze_word
analyzeMiss(word) ==
    LET anim_guess == guess_animacy(word)
        st == missFallback(word,
                  missPatterns(word, collect_worldview_notes(word)))
    IN  AnalysisResult(word, None, st.guessed, anim_guess,
            IF anim_guess # None /\ anim_guess # <<"">>
            THEN Append(st.notes, NoteAnimacy(anim_guess[1]))
            ELSE st.notes)

analyze_word(lex, word) ==
    LET entry == lookup(lex, word)
    IN  IF entry # None THEN analyzeHit(word, entry[1]) ELSE analyzeMiss(word)

\* AnalysisResult.to_dict(): has_entry is added; asdict keeps the fields of
\* the entry and of the morphemes
to_dict(r) ==
    [word              |-> r.word,
     has_entry         |-> r.entry # None,
     entry             |-> r.entry,
     guessed_morphemes |-> r.guessed_morphemes,
     animacy_guess     |-> r.animacy_guess,
     worldview_notes   |-> r.worldview_notes]

\* sentence.replace(",", " ")
replaceCommas(s) == [i \in 1..Len(s) |-> IF s[i] = "," THEN " " ELSE s[i]]

\* s.split(): the runs of non-whitespace characters, in order
RECURSIVE splitWhitespace(_, _)
splitWhitespace(s, cur) ==
    IF s = <<>> THEN (IF cur = <<>> THEN <<>> ELSE <<cur>>)
    ELSE IF Head(s) \in Whitespace
    THEN (IF cur = <<>> THEN <<>> ELSE <<cur>>) \o splitWhitespace(Tail(s), <<>>)
    ELSE splitWhitespace(Tail(s), Append(cur, Head(s)))

\* a tokenizer that forgot replace(",", " ")
tokenizeCommasKept(sentence) ==
    SelectSeq(splitWhitespace(sentence, <<>>), LAMBDA t : t # <<>>)

\* [t for t in sentence.replace(",", " ").split() if t]
tokenize(sentence) ==
    SelectSeq(splitWhitespace(replaceCommas(sentence), <<>>),
              LAMBDA t : t # <<>>)

analyze_sentence(lex, sentence) ==
    LET tokens == tokenize(sentence)
    IN  [sentence |-> sentence,
         tokens   |-> tokens,
         analyses |-> [i \in 1..Len(tokens) |->
                          to_dict(analyze_word(lex, tokens[i]))]]

CautionSpecific ==
    "Prototype only. Confirm phonology, stress and cultural fit with fluent Mi'kmaw speakers and elders before adopting. Adjust spelling to local dialect."

CautionGeneric ==
    "Generic pattern. Replace the root with a better verb that reflects the purpose once you consult speakers (e.g., a more specific verb for how the object acts)."

\* a pattern test that forgot the .lower() calls
matchesRefrigeratorCaseSensitive(req) ==
    \/ contains(req.concept, <<"r","e","f","r","i","g","e","r","a","t","o","r">>)
    \/ /\ contains(req.purpose, <<"c","o","l","d">>)
       /\ contains(req.purpose, <<"f","o","o","d">>)

\* 1. the handcrafted pattern for "thing that keeps X cold"
matchesRefrigerator(req) ==
    \/ contains(lower(req.concept), <<"r","e","f","r","i","g","e","r","a","t","o","r">>)
    \/ /\ contains(lower(req.purpose), <<"c","o","l","d">>)
       /\ contains(lower(req.purpose), <<"f","o","o","d">>)

specificCandidate ==
    GenerationCandidate(<<"M","e","s","e","n","t","a","q","t","e","k","e","k","i","m">>,
        <<Morpheme(<<"m","e","s","e","n","-">>, "to keep / maintain", "preverb"),
          Morpheme(<<"t","a","q","-">>, "inside / container / dwelling", "root-ish"),
          Morpheme(<<"t","e","k","e","k">>, "cold (inanimate state)", "root"),
          Morpheme(<<"-","i","m">>, "instrument / thing that does this", "suffix")>>,
        "Built from mesen- (to keep/maintain) + taq (inside) + tekek (cold) + -im (instrument). Rough sense: 'the thing that keeps the inside cold'.",
        CautionSpecific)

base_root == <<"a","p","o","q","n","m","a","t","u","l","t","i","m">>

\* 2. the generic fallback pattern
genericCandidate ==
    GenerationCandidate(capitalize(base_root) \o <<"i","k">>,
        <<Morpheme(base_root, "to help / support (placeholder root)", "root"),
          Morpheme(<<"-","i","k">>, "thing which does this", "suffix")>>,
        "Generic helper pattern: root meaning 'to help/support' + -ik (instrument). Use this only as a brainstorming starting point.",
        CautionGeneric)

\* a generator that returns as soon as the handcrafted pattern matched
generateSpecificOnly(req) ==
    IF matchesRefrigerator(req) THEN <<specificCandidate>>
    ELSE <<genericCandidate>>

generate_modern_term(req) ==
    (IF matchesRefrigerator(req) THEN <<specificCandidate>> ELSE <<>>)
    \o <<genericCandidate>>

\* ------------------------------------------------------------------------
\* Inputs: the lexicon given to LnuTranslator(lexicon), the words and the
\* generation requests the operations are called with
\* ------------------------------------------------------------------------

RECURSIVE stringsUpTo(_, _)
stringsUpTo(pieces, n) ==
    IF n = 0 THEN {<<>>}
    ELSE LET shorter == stringsUpTo(pieces, n - 1)
         IN  shorter \cup {s \o p : s \in shorter, p \in pieces}

WordPieces ==
    {<<"a">>, <<"t","a">>, <<"s","i">>, <<"u","l">>, <<"q","a","n">>,
     <<"j","i","k">>, <<"'">>, <<" ">>}

SeedWords ==
    {<<"w","e","l","o","'","t","a","s","i">>, <<"w","e","l","o","'","t">>,
     <<"w","e","l","o","'","t","a","s","i","u","l">>, <<"t","e","k","e","k">>,
     <<"T","e","k","e","k">>,
     <<" ","t","e","k","e","k"," ">>,
     <<"t","e","k","e","k","u","l","q","a","n">>, <<"e","p","s","i">>,
     <<"w","i","k","u","o","m">>, <<"k","e","t","l","a","m","i">>,
     <<"k","e","s","a","l","u","l">>, <<"K","e","s","a","l","u","l">>,
     <<"k","e","s","a","'","l","u","l">>,
     <<"k","e","'","s","a","'","l","u","l">>, <<"n","m","e","'","j","i","k">>,
     <<"N","m","e","'","j","i","k">>,
     <<"m","s","i","t"," ","n","o","'","k","m","a","q">>,
     <<"M","s","i","t"," ","N","o","'","k","m","a","q">>,
     <<"k","a","t","a","q">>, <<"K","a","t","a","q">>,
     <<"w","e","s","k","a","q","n","m","e","'">>,
     <<"m","s","i","t","e","'","s">>, <<"S","i">>, <<"S","I">>,
     <<" ","S","i">>, <<"t","a","J","I","K">>,
     <<"\t","s","i","\n">>}

Words == stringsUpTo(WordPieces, MaxPieces) \cup SeedWords

\* sentences are concatenations of at most MaxSentPieces fragments
SentPieces ==
    {<<"a">>, <<"s","i">>, <<"t","a","j","i","k">>, <<"S","i">>, <<",">>, <<" ">>}

SeedSentences ==
    {<<"K","w","e","'",","," ","t","e","l","u","i","s","i"," ","K","a","t","e","w",".">>, <<"m","s","i","t"," ","n","o","'","k","m","a","q",",","t","e","k","e","k">>, <<"\t","s","i",",","\n","a","'","t","a"," ">>}

Sentences == stringsUpTo(SentPieces, MaxSentPieces) \cup SeedSentences

ReqPieces ==
    {<<"R","e","f","r","i","g","e","r","a","t","o","r">>, <<"c","o","l","d">>,
     <<"F","o","o","d">>, <<" ">>}

ReqStrings == stringsUpTo(ReqPieces, MaxReqPieces)

Requests ==
    {GenerationRequest(c, p, t) :
        c \in ReqStrings, p \in ReqStrings, t \in {<<>>, <<"home", "food">>}}

\* two headwords that differ only in case, the capitalised one first
LexCase == <<
    Item(<<"S","i">>, W(<<"S","i">>, "proper name", "N", None, <<>>, <<>>, None, <<>>)),
    Item(<<"s","i">>, W(<<"s","i">>, "I am", "VAI", <<"animate">>,
                  <<Morpheme(<<"s","i">>, "I am", "root")>>, <<"state">>, None, <<>>))
>>

\* headwords that are matched only case-insensitively, one ending in "jik",
\* one with an apostrophe, and the empty headword
LexLoose == <<
    Item(<<"S","I">>, W(<<"S","I">>, "acronym", "N", None, <<>>, <<"modern">>, None, <<>>)),
    Item(<<"S","i">>, W(<<"S","i">>, "proper name", "N", None, <<>>, <<>>, None, <<>>)),
    Item(<<"t","a","j","i","k">>, W(<<"t","a","j","i","k">>, "they (animate)", "NA-pl", <<"animate">>,
                     <<>>, <<"msit_nokmaq">>, None, <<>>)),
    Item(<<"a","'","t","a">>, W(<<"a","'","t","a">>, "story", "NI", <<"inanimate">>, <<>>, <<>>,
                    None, <<>>)),
    Item(<<>>, W(<<>>, "empty headword", "N", None, <<>>, <<>>, None, <<>>))
>>

\* the argument of LnuTranslator(lexicon); None, like {}, is <<>>
LexiconArgs == {None, LexCase, LexLoose}

Inputs ==
    {[kind |-> "word", word |-> w] : w \in Words}
    \cup {[kind |-> "request", req |-> r] : r \in Requests}
    \cup {[kind |-> "sentence", sentence |-> s] : s \in Sentences}

\* ------------------------------------------------------------------------
\* The state machine: a translator is constructed, then its operations are
\* called on the input; op names the last call and result holds what it
\* returned.
\* ------------------------------------------------------------------------

Init ==
    /\ \E arg \in LexiconArgs : lexicon = initLexicon(arg)
    /\ animacy_hints = ANIMACY_HINTS
    /\ worldview_hints = WORLDVIEW_HINTS
    /\ morpheme_table = MORPHEMES
    /\ input \in Inputs
    /\ op = "init"
    /\ result = None

Lookup ==
    /\ input.kind = "word"
    /\ op' = "lookup"
    /\ result' = lookup(lexicon, input.word)
    /\ UNCHANGED <<lexicon, animacy_hints, worldview_hints, morpheme_table, input>>

\* analyze_word with "notes = entry.worldview_tags" in place of a fresh list:
\* the tags note is appended to the stored entry's own tag list
AnalyzeWordAliasingTags ==
    /\ input.kind = "word"
    /\ op' = "analyze_word"
    /\ result' = analyze_word(lexicon, input.word)
    /\ lexicon' = [i \in 1..Len(lexicon) |->
                     IF /\ lookup(lexicon, input.word) = <<lexicon[i].entry>>
                        /\ lexicon[i].entry.worldview_tags # <<>>
                     THEN [lexicon[i] EXCEPT !.entry.worldview_tags =
                              Append(@, "Worldview tags")]
                     ELSE lexicon[i]]
    /\ UNCHANGED <<animacy_hints, worldview_hints, morpheme_table, input>>

AnalyzeWord ==
    /\ input.kind = "word"
    /\ op' = "analyze_word"
    /\ result' = analyze_word(lexicon, input.word)
    /\ UNCHANGED <<lexicon, animacy_hints, worldview_hints, morpheme_table, input>>

GuessAnimacy ==
    /\ input.kind = "word"
    /\ op' = "guess_animacy"
    /\ result' = guess_animacy(input.word)
    /\ UNCHANGED <<lexicon, animacy_hints, worldview_hints, morpheme_table, input>>

CollectWorldviewNotes ==
    /\ input.kind = "word"
    /\ op' = "collect_worldview_notes"
    /\ result' = collect_worldview_notes(input.word)
    /\ UNCHANGED <<lexicon, animacy_hints, worldview_hints, morpheme_table, input>>

\* result.found is the list analyze_morphemes returns
AnalyzeMorphemes ==
    /\ input.kind = "word"
    /\ op' = "analyze_morphemes"
    /\ result' = segment(morpheme_table, input.word)
    /\ UNCHANGED <<lexicon, animacy_hints, worldview_hints, morpheme_table, input>>

GenerateModernTerm ==
    /\ input.kind = "request"
    /\ op' = "generate_modern_term"
    /\ result' = generate_modern_term(input.req)
    /\ UNCHANGED <<lexicon, animacy_hints, worldview_hints, morpheme_table, input>>

AnalyzeSentence ==
    /\ input.kind = "sentence"
    /\ op' = "analyze_sentence"
    /\ result' = analyze_sentence(lexicon, input.sentence)
    /\ UNCHANGED <<lexicon, animacy_hints, worldview_hints, morpheme_table, input>>

Next ==
    \/ Lookup
    \/ AnalyzeWord
    \/ AnalyzeSentence
    \/ GuessAnimacy
    \/ CollectWorldviewNotes
    \/ AnalyzeMorphemes
    \/ GenerateModernTerm

Spec == Init /\ [][Next]_vars

\* ------------------------------------------------------------------------
\* analyze_morphemes iteration by iteration: op is "peeling" while the while
\* loop runs and result holds its local state, then "analyze_morphemes" once
\* the root step has run and result holds what is returned.
\* ------------------------------------------------------------------------

WordInputs == {[kind |-> "word", word |-> w] : w \in Words}

InitPeel ==
    /\ lexicon = initLexicon(None)
    /\ animacy_hints = ANIMACY_HINTS
    /\ worldview_hints = WORLDVIEW_HINTS
    /\ morpheme_table = MORPHEMES
    /\ input \in WordInputs
    /\ op = "init"
    /\ result = None

StartPeel ==
    /\ op = "init"
    /\ op' = "peeling"
    /\ result' = [remaining |-> input.word, found |-> <<>>, steps |-> <<>>]
    /\ UNCHANGED <<lexicon, animacy_hints, worldview_hints, morpheme_table, input>>

\* an iteration of the while loop whose for loop breaks on a suffix
PeelStep ==
    /\ op = "peeling"
    /\ LET sufs == suffixes(morpheme_table)
           i == firstPeelable(sufs, result.remaining)
       IN  /\ i # 0
           /\ result' = peel(result, sufs[i])
    /\ UNCHANGED <<lexicon, animacy_hints, worldview_hints, morpheme_table, input, op>>

\* the iteration whose for loop ends without a break, then the root step
PeelDone ==
    /\ op = "peeling"
    /\ firstPeelable(suffixes(morpheme_table), result.remaining) = 0
    /\ op' = "analyze_morphemes"
    /\ result' = rootFirst(morpheme_table, result)
    /\ UNCHANGED <<lexicon, animacy_hints, worldview_hints, morpheme_table, input>>

NextPeel ==
    \/ StartPeel
    \/ PeelStep
    \/ PeelDone

\* a call, once made, runs to its return: no other thread is involved
SpecPeel == InitPeel /\ [][NextPeel]_vars /\ WF_vars(NextPeel)


\* ------------------------------------------------------------------------
\* Properties
\* ------------------------------------------------------------------------

surfacesOf(ms) == [i \in 1..Len(ms) |-> ms[i].surface]

formsOf(ms) == [i \in 1..Len(ms) |-> ms[i].form]

\* the strings of parts, one after the other
RECURSIVE concat(_)
concat(parts) ==
    IF parts = <<>> THEN <<>> ELSE Head(parts) \o concat(Tail(parts))

IsAnalysisResult(r) ==
    DOMAIN r = {"word", "entry", "guessed_morphemes", "animacy_guess",
                "worldview_notes"}

\* some headword of lex equals the trimmed word up to case
HasEntryFor(lex, word) ==
    \E i \in 1..Len(lex) : lower(lex[i].key) = lower(strip(word))

\* C1: analyze_word(w) returns entry = lookup(w); a word with a lexicon
\* entry (up to trimming and case) gets a stored entry and no guessed
\* morphemes, a word without one gets no entry and at least one guessed
\* morpheme; the two are never populated together.
C1_EntryXorGuessed ==
    op = "analyze_word" =>
        /\ result.entry = lookup(lexicon, input.word)
        /\ (result.guessed_morphemes = <<>>) <=> (result.entry # None)
        /\ HasEntryFor(lexicon, input.word) =>
              /\ result.entry # None
              /\ \E i \in 1..Len(lexicon) : lexicon[i].entry = result.entry[1]
              /\ result.guessed_morphemes = <<>>
        /\ ~HasEntryFor(lexicon, input.word) =>
              /\ result.entry = None
              /\ Len(result.guessed_morphemes) >= 1

\* C1 witness: a miss on the word "'", whose apostrophe split leaves no
\* piece, so that the whole-word fallback supplies the one guessed morpheme
C1_Witness ==
    /\ op = "analyze_word"
    /\ input.word = <<"'">>
    /\ result.entry = None
    /\ surfacesOf(result.guessed_morphemes) = <<<<"'">>>>

\* positions i..j of w hold w without its leading and trailing whitespace
IsTrim(w, i, j) ==
    /\ \A x \in 1..(i - 1) : w[x] \in Whitespace
    /\ \A x \in (j + 1)..Len(w) : w[x] \in Whitespace
    /\ i <= j => (w[i] \notin Whitespace /\ w[j] \notin Whitespace)

\* what C2 says lookup returns for the trimmed key k
ExactThenFirstLoose(lex, k) ==
    IF \E n \in 1..Len(lex) : lex[n].key = k
    THEN <<lex[CHOOSE n \in 1..Len(lex) : lex[n].key = k].entry>>
    ELSE IF \E n \in 1..Len(lex) : lower(lex[n].key) = lower(k)
    THEN <<lex[CHOOSE n \in 1..Len(lex) :
                 /\ lower(lex[n].key) = lower(k)
                 /\ \A m \in 1..(n - 1) : lower(lex[m].key) # lower(k)].entry>>
    ELSE None

\* C2: lookup(q) trims whitespace and is case-insensitive with exact match
\* first: the entry of the key equal to the trimmed query if there is one,
\* otherwise the entry of the first key in table order equal to it up to
\* case, otherwise no entry.
C2_LookupExactThenLoose ==
    op = "lookup" =>
        \E i \in 1..(Len(input.word) + 1), j \in 0..Len(input.word) :
            /\ IsTrim(input.word, i, j)
            /\ result = ExactThenFirstLoose(lexicon, SubSeq(input.word, i, j))

\* C2 witness: " si" looked up where "Si" precedes "si": the exact key wins
\* over the earlier key that matches only up to case
C2_Witness ==
    /\ op = "lookup"
    /\ lexicon = LexCase
    /\ input.word = <<" ","s","i">>
    /\ result = <<LexCase[2].entry>>

\* C3 as claimed: analyze_word of an empty or whitespace-only string returns
\* a "no result" sentinel, not an AnalysisResult.
C3_BlankGivesNoResult ==
    (op = "analyze_word" /\ strip(input.word) = <<>>) =>
        ~IsAnalysisResult(result)

\* C3 as amended: analyze_word of an empty or whitespace-only string returns
\* an AnalysisResult like for any other word; when the lexicon has no empty
\* headword it is the miss result: no entry, no animacy guess, the untrimmed
\* input as the one guessed morpheme of role "unknown", and the no-entry
\* note as the only note.
C3_BlankIsOrdinaryMiss ==
    (op = "analyze_word" /\ strip(input.word) = <<>>) =>
        /\ IsAnalysisResult(result)
        /\ result.word = input.word
        /\ (\A i \in 1..Len(lexicon) : lexicon[i].key # <<>>) =>
              /\ result.entry = None
              /\ result.animacy_guess = None
              /\ Len(result.guessed_morphemes) = 1
              /\ result.guessed_morphemes[1].surface = input.word
              /\ result.guessed_morphemes[1].role = "unknown"
              /\ result.worldview_notes = <<NoteNoEntry>>

\* C3 witness: analyze_word("  ") on the core lexicon
C3_Witness ==
    /\ op = "analyze_word"
    /\ lexicon = LEXICON_CORE
    /\ input.word = <<" "," ">>
    /\ result.entry = None
    /\ surfacesOf(result.guessed_morphemes) = <<<<" "," ">>>>

\* C4 as claimed: for every word with no lexicon entry the notes of
\* analyze_word contain the advisory that no lexicon entry exists and the
\* word is to be confirmed with fluent speakers.
C4_MissAlwaysAdvised ==
    (op = "analyze_word" /\ result.entry = None) =>
        \E i \in 1..Len(result.worldview_notes) :
            result.worldview_notes[i] = NoteNoEntry

\* surface and role of every morpheme, for either Morpheme class
shapeOfGuessed(ms) == [i \in 1..Len(ms) |-> <<ms[i].surface, ms[i].role>>]

shapeOfSegmented(ms) == [i \in 1..Len(ms) |-> <<ms[i].form, ms[i].type>>]

\* C5 as claimed: on a miss, guessed_morphemes of analyze_word is the
\* morpheme sequence analyze_morphemes returns for the word.
C5_MissIsSegmenterOutput ==
    (op = "analyze_word" /\ result.entry = None) =>
        shapeOfGuessed(result.guessed_morphemes)
            = shapeOfSegmented(analyze_morphemes(input.word))

\* a non-empty word that does not end in "jik", has no piece between or
\* beside apostrophes, and of which no registered suffix is a proper suffix
PlainWord(w) ==
    /\ w # <<>>
    /\ ~endswith(w, <<"j","i","k">>)
    /\ (\A i \in 1..Len(w) : w[i] # "'") \/ (\A i \in 1..Len(w) : w[i] = "'")
    /\ \A i \in 1..Len(MORPHEMES) :
          MORPHEMES[i].type = "suffix" =>
              ~(endswith(w, MORPHEMES[i].form) /\ w # MORPHEMES[i].form)

\* C5 as amended: the miss path of analyze_word applies its own pattern
\* heuristics, not the Segmenter. Its guessed morphemes never equal the
\* Segmenter's morphemes in surface and role, and their surface forms alone
\* equal the Segmenter's exactly for the plain words, where both are the
\* whole word as one morpheme.
C5_MissAgreesOnPlainWordsOnly ==
    (op = "analyze_word" /\ result.entry = None) =>
        /\ shapeOfGuessed(result.guessed_morphemes)
              # shapeOfSegmented(analyze_morphemes(input.word))
        /\ (surfacesOf(result.guessed_morphemes)
              = formsOf(analyze_morphemes(input.word)))
           <=> PlainWord(input.word)
        /\ PlainWord(input.word) =>
              surfacesOf(result.guessed_morphemes) = <<input.word>>

\* C5 witness: "taJIK" is a plain word (the "jik" test is case-sensitive):
\* both analyses give the whole word
C5_Witness ==
    /\ op = "analyze_word"
    /\ input.word = <<"t","a","J","I","K">>
    /\ result.entry = None
    /\ surfacesOf(result.guessed_morphemes) = <<<<"t","a","J","I","K">>>>
    /\ formsOf(analyze_morphemes(input.word)) = <<<<"t","a","J","I","K">>>>

\* C6: concatenating the forms of the morphemes analyze_morphemes returns,
\* in order, gives back the input word; the empty word gives the empty list.
C6_SegmenterRoundTrip ==
    op = "analyze_morphemes" =>
        /\ concat(formsOf(result.found)) = input.word
        /\ input.word = <<>> => result.found = <<>>

\* C6 witness: "asiul" segmented into a + si + ul
C6_Witness ==
    /\ op = "analyze_morphemes"
    /\ input.word = <<"a","s","i","u","l">>
    /\ formsOf(result.found) = <<<<"a">>, <<"s","i">>, <<"u","l">>>>

\* the steps are the loop's: the first starts from the word, each next one
\* from what the previous left, and the suffixes stripped are, last stripped
\* first, the morphemes returned after the root position
StepsAreTheLoop(word, r) ==
    /\ Len(r.steps) >= 1 => r.steps[1].residual = word
    /\ \A k \in 1..(Len(r.steps) - 1) :
          r.steps[k + 1].residual =
              SubSeq(r.steps[k].residual, 1,
                     Len(r.steps[k].residual) - Len(r.steps[k].suf.form))
    /\ Len(r.found) >= Len(r.steps)
    /\ \A k \in 1..Len(r.steps) : r.found[Len(r.found) - k + 1] = r.steps[k].suf

\* C7: at every peeling step the suffix stripped is a registered suffix that
\* the residual ends with and that is strictly shorter than the residual,
\* and no longer registered suffix is; "welo'tasi" gives root "welo'" and
\* suffix "tasi".
C7_LongestSuffixWins ==
    op = "analyze_morphemes" =>
        /\ StepsAreTheLoop(input.word, result)
        /\ \A k \in 1..Len(result.steps) :
              LET step == result.steps[k]
              IN  /\ \E i \in 1..Len(MORPHEMES) : MORPHEMES[i] = step.suf
                  /\ step.suf.type = "suffix"
                  /\ endswith(step.residual, step.suf.form)
                  /\ Len(step.suf.form) < Len(step.residual)
                  /\ \A i \in 1..Len(MORPHEMES) :
                        ( /\ MORPHEMES[i].type = "suffix"
                          /\ endswith(step.residual, MORPHEMES[i].form)
                          /\ Len(MORPHEMES[i].form) < Len(step.residual) )
                        => Len(MORPHEMES[i].form) <= Len(step.suf.form)
        /\ input.word = <<"w","e","l","o","'","t","a","s","i">> =>
              shapeOfSegmented(result.found)
                  = << <<<<"w","e","l","o","'">>, "root">>, <<<<"t","a","s","i">>, "suffix">> >>

\* C7 witness: "welo'tasi" segmented, "tasi" stripped in one step
C7_Witness ==
    /\ op = "analyze_morphemes"
    /\ input.word = <<"w","e","l","o","'","t","a","s","i">>
    /\ Len(result.steps) = 1
    /\ result.steps[1].suf.form = <<"t","a","s","i">>
    /\ formsOf(result.found) = <<<<"w","e","l","o","'">>, <<"t","a","s","i">>>>

IsSuffixForm(w) ==
    \E i \in 1..Len(MORPHEMES) :
        MORPHEMES[i].type = "suffix" /\ MORPHEMES[i].form = w

HasShorterSuffix(w) ==
    \E i \in 1..Len(MORPHEMES) :
        /\ MORPHEMES[i].type = "suffix"
        /\ endswith(w, MORPHEMES[i].form)
        /\ MORPHEMES[i].form # w

WholeWordAsRoot(word, r) ==
    /\ r.steps = <<>>
    /\ Len(r.found) = 1
    /\ r.found[1].form = word

\* C8 as claimed: for a word equal to a registered suffix form no suffix is
\* peeled and the whole word is returned as the single root-position
\* morpheme.
C8_SuffixWordNeverPeeled ==
    (op = "analyze_morphemes" /\ IsSuffixForm(input.word)) =>
        WholeWordAsRoot(input.word, result)

\* C8 as amended: for a word equal to a registered suffix form, that suffix
\* itself is never peeled, and the whole word is returned as the single
\* root-position morpheme exactly when no other registered suffix is a
\* proper suffix of it ("si", "ul", "qan"); otherwise ("tasi", "aqan") the
\* shorter suffix is peeled.
C8_SuffixWordKeptUnlessShorterSuffix ==
    (op = "analyze_morphemes" /\ IsSuffixForm(input.word)) =>
        /\ \A k \in 1..Len(result.steps) :
              result.steps[k].suf.form # input.word
        /\ WholeWordAsRoot(input.word, result)
              <=> ~HasShorterSuffix(input.word)
        /\ HasShorterSuffix(input.word) => Len(result.steps) >= 1

\* C8 witness: "tasi", a registered suffix, loses its shorter suffix "si"
C8_Witness ==
    /\ op = "analyze_morphemes"
    /\ input.word = <<"t","a","s","i">>
    /\ formsOf(result.found) = <<<<"t","a">>, <<"s","i">>>>

\* C9: for a non-empty word the residual is non-empty after every peeling
\* step, the result starts with a root-position morpheme holding the final
\* non-empty residual, and no returned morpheme has an empty form.
C9_ResidualNeverEmpty ==
    (op = "analyze_morphemes" /\ input.word # <<>>) =>
        /\ \A k \in 1..Len(result.steps) :
              /\ result.steps[k].suf.form # result.steps[k].residual
              /\ Len(result.steps[k].suf.form) < Len(result.steps[k].residual)
        /\ result.remaining # <<>>
        /\ Len(result.found) = Len(result.steps) + 1
        /\ result.found[1].form = result.remaining
        /\ \A i \in 1..Len(result.found) : result.found[i].form # <<>>

\* C9 witness: "sisi": after one "si" is stripped the residual is "si"
\* itself, which is kept as the root position
C9_Witness ==
    /\ op = "analyze_morphemes"
    /\ input.word = <<"s","i","s","i">>
    /\ Len(result.steps) = 1
    /\ result.remaining = <<"s","i">>
    /\ formsOf(result.found) = <<<<"s","i">>, <<"s","i">>>>

\* C10: generate_modern_term returns a non-empty list whose last element is
\* the generic fallback candidate (the placeholder root "apoqnmatultim" and
\* the word "Apoqnmatultimik"), and every candidate has a non-empty caution.
C10_GenericLastAndCautions ==
    op = "generate_modern_term" =>
        /\ Len(result) >= 1
        /\ result[Len(result)].word = <<"A","p","o","q","n","m","a","t","u","l","t","i","m","i","k">>
        /\ result[Len(result)].breakdown[1].surface = <<"a","p","o","q","n","m","a","t","u","l","t","i","m">>
        /\ result[Len(result)].breakdown[1].role = "root"
        /\ \A i \in 1..Len(result) : result[i].caution # ""

\* C10 witness: a request the refrigerator pattern matches, answered with
\* the specific candidate and then the generic one
C10_Witness ==
    /\ op = "generate_modern_term"
    /\ input.req.concept = <<"R","e","f","r","i","g","e","r","a","t","o","r">>
    /\ Len(result) = 2
    /\ result[1].word = <<"M","e","s","e","n","t","a","q","t","e","k","e","k","i","m">>
    /\ result[2].word = <<"A","p","o","q","n","m","a","t","u","l","t","i","m","i","k">>

\* C11: generate_modern_term returns exactly [specific, generic] when the
\* concept contains "refrigerator" or the purpose contains both "cold" and
\* "food", up to case, and exactly [generic] otherwise; an empty concept
\* with an empty purpose gives [generic].
C11_SpecificOnlyOnRefrigeratorPattern ==
    op = "generate_modern_term" =>
        LET c == lower(input.req.concept)
            p == lower(input.req.purpose)
            matched ==
                \/ contains(c, <<"r","e","f","r","i","g","e","r","a","t","o","r">>)
                \/ contains(p, <<"c","o","l","d">>) /\ contains(p, <<"f","o","o","d">>)
            isGeneric(cand) ==
                /\ cand.word = <<"A","p","o","q","n","m","a","t","u","l","t","i","m","i","k">>
                /\ cand.caution = CautionGeneric
                /\ Len(cand.breakdown) = 2
            isSpecific(cand) ==
                /\ cand.word = <<"M","e","s","e","n","t","a","q","t","e","k","e","k","i","m">>
                /\ cand.caution = CautionSpecific
                /\ Len(cand.breakdown) = 4
        IN  /\ matched =>
                /\ Len(result) = 2
                /\ isSpecific(result[1])
                /\ isGeneric(result[2])
            /\ ~matched =>
                /\ Len(result) = 1
                /\ isGeneric(result[1])
            /\ (input.req.concept = <<>> /\ input.req.purpose = <<>>) =>
                Len(result) = 1

\* C11 witness: no concept and the purpose "coldFood": the pattern matches
\* through the purpose alone, up to case
C11_Witness ==
    /\ op = "generate_modern_term"
    /\ input.req.concept = <<>>
    /\ input.req.purpose = <<"c","o","l","d","F","o","o","d">>
    /\ Len(result) = 2
    /\ result[1].word = <<"M","e","s","e","n","t","a","q","t","e","k","e","k","i","m">>

IsSeparator(c) == c = "," \/ c \in Whitespace

\* the positions where a run of non-separator characters starts, and ends
RunStarts(s) ==
    {i \in 1..Len(s) :
        ~IsSeparator(s[i]) /\ (i = 1 \/ IsSeparator(s[i - 1]))}

RunEnds(s) ==
    {i \in 1..Len(s) :
        ~IsSeparator(s[i]) /\ (i = Len(s) \/ IsSeparator(s[i + 1]))}

\* the k-th smallest element of a set of numbers
Kth(S, k) == CHOOSE x \in S : Cardinality({y \in S : y <= x}) = k

\* C12: analyze_sentence splits on whitespace and commas and drops empty
\* tokens: the tokens are the maximal runs of characters that are neither,
\* in order; it returns one analysis per token, the i-th being analyze_word
\* of the i-th token alone (as a dict); "Kwe', teluisi Katew." gives three.
C12_SentenceTokensAndAnalyses ==
    op = "analyze_sentence" =>
        LET s == input.sentence
        IN  /\ result.sentence = s
            /\ Len(result.tokens) = Cardinality(RunStarts(s))
            /\ \A k \in 1..Len(result.tokens) :
                  /\ result.tokens[k] =
                        SubSeq(s, Kth(RunStarts(s), k), Kth(RunEnds(s), k))
                  /\ result.tokens[k] # <<>>
                  /\ \A x \in 1..Len(result.tokens[k]) :
                        ~IsSeparator(result.tokens[k][x])
            /\ Len(result.analyses) = Len(result.tokens)
            /\ \A k \in 1..Len(result.tokens) :
                  /\ result.analyses[k].word = result.tokens[k]
                  /\ result.analyses[k] =
                        to_dict(analyze_word(lexicon, result.tokens[k]))
            /\ s = <<"K","w","e","'",","," ","t","e","l","u","i","s","i"," ","K","a","t","e","w",".">> =>
                  result.tokens = <<<<"K","w","e","'">>, <<"t","e","l","u","i","s","i">>, <<"K","a","t","e","w",".">>>>

\* C12 witness: the sentence "Kwe', teluisi Katew." with its three tokens
\* and three analyses
C12_Witness ==
    /\ op = "analyze_sentence"
    /\ input.sentence = <<"K","w","e","'",","," ","t","e","l","u","i","s","i"," ","K","a","t","e","w",".">>
    /\ result.tokens = <<<<"K","w","e","'">>, <<"t","e","l","u","i","s","i">>, <<"K","a","t","e","w",".">>>>
    /\ Len(result.analyses) = 3
    /\ result.analyses[3].word = <<"K","a","t","e","w",".">>

\* the hints of a table whose fragment occurs in the lower-cased word
HintsIn(hints, word) ==
    {i \in 1..Len(hints) : contains(lower(word), hints[i].frag)}

\* C13: guess_animacy returns the animacy of the first hint, in table
\* order, whose fragment occurs in the lower-cased word; without such a hint
\* it returns animate when the lower-cased word ends with "jik" and no
\* answer otherwise; it returns nothing but animate, inanimate or no answer.
C13_FirstHintThenJik ==
    op = "guess_animacy" =>
        LET hits == HintsIn(ANIMACY_HINTS, input.word)
        IN  /\ hits # {} => result = <<ANIMACY_HINTS[Kth(hits, 1)].value>>
            /\ hits = {} =>
                  IF endswith(lower(input.word), <<"j","i","k">>)
                  THEN result = <<"animate">>
                  ELSE result = None
            /\ result \in {None, <<"animate">>, <<"inanimate">>}

\* C13 witness: "weskaqnme'" holds the hints "nme'" (animate, first in the
\* table) and "weskaq" (inanimate, first in the word): the answer is animate
C13_Witness ==
    /\ op = "guess_animacy"
    /\ input.word = <<"w","e","s","k","a","q","n","m","e","'">>
    /\ Cardinality(HintsIn(ANIMACY_HINTS, input.word)) = 2
    /\ result = <<"animate">>

\* C14: collect_worldview_notes returns the note of every hint whose
\* fragment occurs in the lower-cased word, one note per such hint, in table
\* order, and the empty list when there is none.
C14_AllHintNotesInOrder ==
    op = "collect_worldview_notes" =>
        LET hits == HintsIn(WORLDVIEW_HINTS, input.word)
        IN  /\ Len(result) = Cardinality(hits)
            /\ \A k \in 1..Len(result) :
                  result[k] = WORLDVIEW_HINTS[Kth(hits, k)].value
            /\ hits = {} => result = <<>>

\* C14 witness: "Msit No'kmaq" holds the hints "msit" and "no'kmaq": both
\* notes are returned, in table order
C14_Witness ==
    /\ op = "collect_worldview_notes"
    /\ input.word = <<"M","s","i","t"," ","N","o","'","k","m","a","q">>
    /\ result = <<WORLDVIEW_HINTS[1].value, WORLDVIEW_HINTS[2].value>>

\* the notes that begin "Worldview tags: "
TagNotes(notes) ==
    {i \in 1..Len(notes) : notes[i][1] = "Worldview tags: "}

\* C15: on a lexicon hit the notes are the heuristic notes over the entry's
\* headword, followed by exactly one "Worldview tags" note listing the
\* stored tags when the entry has tags and by nothing when it has none; the
\* animacy reported is the entry's stored animacy.
C15_HitNotesAndStoredAnimacy ==
    (op = "analyze_word" /\ result.entry # None) =>
        LET e == result.entry[1]
            hits == HintsIn(WORLDVIEW_HINTS, e.headword)
            n == Cardinality(hits)
            notes == result.worldview_notes
        IN  /\ \A k \in 1..n : notes[k] = WORLDVIEW_HINTS[Kth(hits, k)].value
            /\ e.worldview_tags # <<>> =>
                  /\ Len(notes) = n + 1
                  /\ notes[n + 1] =
                        <<"Worldview tags: ">> \o join(", ", e.worldview_tags)
                  /\ TagNotes(notes) = {n + 1}
            /\ e.worldview_tags = <<>> =>
                  /\ Len(notes) = n
                  /\ TagNotes(notes) = {}
            /\ result.animacy_guess = e.animacy

\* C15 witness: "Nme'jik" hits the entry "nme'jik" up to case: one tags
\* note, and the stored animacy
C15_Witness ==
    /\ op = "analyze_word"
    /\ input.word = <<"N","m","e","'","j","i","k">>
    /\ result.entry # None
    /\ result.entry[1].headword = <<"n","m","e","'","j","i","k">>
    /\ result.worldview_notes
          = << <<"Worldview tags: ", "animals", ", ", "water">> >>
    /\ result.animacy_guess = <<"animate">>

\* the lexicon and the hint tables are as they were at construction
TablesAsConstructed ==
    /\ lexicon \in {initLexicon(arg) : arg \in LexiconArgs}
    /\ animacy_hints = ANIMACY_HINTS
    /\ worldview_hints = WORLDVIEW_HINTS

\* a call made now returns what the last call of the same operation returned
SameAnswerAgain ==
    /\ op = "analyze_word" => result = analyze_word(lexicon, input.word)
    /\ op = "guess_animacy" => result = guess_animacy(input.word)

\* C16: no call of analyze_word, analyze_sentence, generate_modern_term,
\* guess_animacy or collect_worldview_notes (nor any other operation) writes
\* the lexicon, its stored entries, or the animacy and worldview hint
\* tables: each step leaves them as they were, so they stay as constructed
\* and, whatever calls came before, guess_animacy and analyze_word called
\* again on the same word return the same result.
C16_CallsLeaveTablesUnchanged ==
    /\ [](TablesAsConstructed /\ SameAnswerAgain)
    /\ [][/\ lexicon' = lexicon
          /\ animacy_hints' = animacy_hints
          /\ worldview_hints' = worldview_hints]_vars

\* C16 witness: analyze_word has hit the entry "tekek" and returned its
\* tags in a note, and the stored entry still has the tags it was
\* constructed with
C16_Witness ==
    /\ op = "analyze_word"
    /\ input.word = <<"T","e","k","e","k">>
    /\ result.entry # None
    /\ TagNotes(result.worldview_notes) # {}
    /\ lexicon = LEXICON_CORE
    /\ result.entry[1].worldview_tags = Get(LEXICON_CORE, <<"t","e","k","e","k">>).worldview_tags

\* the morphemes of the table with a given role
TableMorphemes(role) ==
    {MORPHEMES[i] : i \in {j \in 1..Len(MORPHEMES) : MORPHEMES[j].type = role}}

\* C17: for every non-empty word, the first morpheme analyze_morphemes
\* returns has role root: the known root of the morpheme table whose form is
\* the residual when there is one, otherwise the synthetic UNKNOWN-ROOT
\* morpheme whose form is the residual; every later morpheme is a suffix of
\* the morpheme table.
C17_RootFirstThenSuffixes ==
    (op = "analyze_morphemes" /\ input.word # <<>>) =>
        LET found == result.found
            knownRoots == {m \in TableMorphemes("root") : m.form = result.remaining}
        IN  /\ found # <<>>
            /\ found[1].type = "root"
            /\ IF knownRoots # {}
               THEN found[1] \in knownRoots
               ELSE found[1] = BridgeMorpheme(result.remaining, "UNKNOWN-ROOT",
                                              "root", "not yet in database")
            /\ \A k \in 2..Len(found) : found[k] \in TableMorphemes("suffix")

\* ------------------------------------------------------------------------
\* analyze_morphemes over reordered morpheme tables: the MORPHEMES literal
\* with its suffixes in every order, its roots before them in source order
\* or after them in reverse order.
\* ------------------------------------------------------------------------

Reverse(seq) == [i \in 1..Len(seq) |-> seq[Len(seq) + 1 - i]]

Orderings ==
    LET roots == SelectSeq(MORPHEMES, LAMBDA m : ~IsSuffixMorpheme(m))
        sufs  == SelectSeq(MORPHEMES, IsSuffixMorpheme)
        n     == Len(sufs)
        perms == {p \in [1..n -> 1..n] :
                    \A i, j \in 1..n : p[i] = p[j] => i = j}
        permuted(p) == [i \in 1..n |-> sufs[p[i]]]
    IN  UNION {{roots \o permuted(p), permuted(p) \o Reverse(roots)} : p \in perms}

\* the words segmented over the reordered tables
OrderPieces == {<<"a">>, <<"t","a">>, <<"s","i">>, <<"u","l">>, <<"q","a","n">>}

OrderWords == stringsUpTo(OrderPieces, MaxOrderPieces) \cup SeedWords

InitOrder ==
    /\ lexicon = initLexicon(None)
    /\ animacy_hints = ANIMACY_HINTS
    /\ worldview_hints = WORLDVIEW_HINTS
    /\ morpheme_table \in Orderings
    /\ input \in {[kind |-> "word", word |-> w] : w \in OrderWords}
    /\ op = "init"
    /\ result = None

SpecOrder == InitOrder /\ [][NextPeel]_vars

\* no suffix of the table can still be peeled off the residual
IsFixedPoint(residual) ==
    \A i \in 1..Len(morpheme_table) :
        morpheme_table[i].type = "suffix" =>
            ~(/\ endswith(residual, morpheme_table[i].form)
              /\ Len(morpheme_table[i].form) < Len(residual))

\* C18: the suffix-peeling loop of analyze_morphemes terminates for every
\* word: each peel strictly shortens the residual, so at most len(word)
\* suffixes are peeled, and when the loop stops no suffix form of the table
\* is a proper suffix of the residual. The loop run iteration by iteration
\* returns what analyze_morphemes returns.
C18_PeelingTerminates ==
    /\ <>(op = "analyze_morphemes")
    /\ [][(op = "peeling" /\ op' = "peeling") =>
             Len(result'.remaining) < Len(result.remaining)]_vars
    /\ [](op \in {"peeling", "analyze_morphemes"} =>
             Len(result.steps) <= Len(input.word))
    /\ [](op = "analyze_morphemes" =>
             /\ IsFixedPoint(result.remaining)
             /\ result = segment(morpheme_table, input.word))

\* C18 witness: "welo'tasiul" has been peeled twice ("ul", then "tasi") and
\* the loop has stopped on the residual "welo'"
C18_Witness ==
    /\ op = "analyze_morphemes"
    /\ input.word = <<"w","e","l","o","'","t","a","s","i","u","l">>
    /\ Len(result.steps) = 2
    /\ result.remaining = <<"w","e","l","o","'">>

\* the suffixes of the current table that the for loop could break on
PeelableNow ==
    {i \in 1..Len(morpheme_table) :
        /\ morpheme_table[i].type = "suffix"
        /\ peelable(result.remaining, morpheme_table[i])}

\* C19: the suffix forms of the morpheme table are pairwise distinct; then
\* at every peeling step at most one suffix of any given length matches the
\* residual, so the same-length tie-break is never exercised, and
\* analyze_morphemes returns, for every ordering of the table, the morpheme
\* sequence it returns for the table as written.
C19_TableOrderIrrelevant ==
    /\ \A i, j \in 1..Len(morpheme_table) :
          (/\ morpheme_table[i].type = "suffix"
           /\ morpheme_table[j].type = "suffix"
           /\ morpheme_table[i].form = morpheme_table[j].form) => i = j
    /\ op = "peeling" =>
          \A i, j \in PeelableNow :
              Len(morpheme_table[i].form) = Len(morpheme_table[j].form) => i = j
    /\ op = "analyze_morphemes" =>
          result.found = segment(MORPHEMES, input.word).found

\* C19 witness: in a table that lists "si" before "tasi" and "ul" first,
\* "welo'tasiul" is still segmented as welo' + tasi + ul
C19_Witness ==
    /\ op = "analyze_morphemes"
    /\ input.word = <<"w","e","l","o","'","t","a","s","i","u","l">>
    /\ morpheme_table # MORPHEMES
    /\ morpheme_table[1].form = <<"u","l">>
    /\ morpheme_table[2].form = <<"s","i">>
    /\ formsOf(result.found) = <<<<"w","e","l","o","'">>, <<"t","a","s","i">>, <<"u","l">>>>

====
